---- MODULE Spec2Model ----
(***************************************************************************)
(* RemoteDBusConnection (facade, caller context) and                       *)
(* RemoteDBusConnectionTunnel (tunnel, I/O context) of                     *)
(* src/dbus/remotedbusconnection.cpp, as a state machine.                  *)
(*                                                                         *)
(* Three kinds of threads: the tunnel thread, which runs an event loop     *)
(* (posted events in FIFO order, socket notifications, timers); the thread *)
(* the facade lives in, which receives the tunnel's signals as queued      *)
(* events and issues openConnection/closeConnection/set...Timeout; and     *)
(* the caller threads, which run executeWrappedOperation.                  *)
(***************************************************************************)
EXTENDS Integers, Sequences, FiniteSets, TLC

\* ---- bounds of the model ----
NumCallers == 2     \* caller threads running wrapped operations
MaxIoq == 1         \* commands of the facade waiting in the tunnel thread's queue
MaxEvq == 0         \* signals waiting in the facade thread's queue when more are added
MaxBytes == 3       \* bytes each end of the relay writes (RelaySpec)

\* ---- program constants ----
Disabled == -1      \* "never expires" timeout value
FiniteTimeout == 100

\* The caller threads run the same code and nothing tells them apart: pc
\* counts the threads at each position of executeWrappedOperation.
Positions == {"idle", "start", "body", "await", "failed", "stop"}
TimeoutValues == {Disabled, FiniteTimeout}

VARIABLES
    tunnel,     \* fields of the RemoteDBusConnectionTunnel object
    net,        \* the sockets' surroundings: local link, bytes in flight, and
                \* (RelaySpec) what the two ends have written and read so far
    ioq,        \* events posted to the tunnel thread, oldest first
    io_pc,      \* where the tunnel thread is: in its loop or blocked in acquire()
    evq,        \* queued signals for the facade thread, oldest first
    main_pc,    \* where the facade thread is: in its loop or inside connectToBus()
    ref,        \* RemoteDBusConnection::ref != nullptr
    last_told,  \* the last of connectionOpened(true), connectionOpened(false)
                \* and connectionClosed() the facade has emitted, and from where
    unguarded,  \* the accesses made so far to a plain data member of the
                \* tunnel that two threads use, without the tunnel's mutex
    pc          \* the number of caller threads at each position

vars == <<tunnel, net, ioq, io_pc, evq, main_pc, ref, last_told, unguarded, pc>>

\* ---- signals ----
Sig(s, ok, m) == [sig |-> s, success |-> ok, message |-> m]
channelOpened(ok) == Sig("channelOpened", ok, "")
channelClosed(ok) == Sig("channelClosed", ok, "")
channelError(m) == Sig("channelError", FALSE, m)
connectionError(m) == Sig("connectionError", FALSE, m)

\* A handler works on w = [t: tunnel fields, n: net, e: signals emitted so far].
Emit(w, ev) == [w EXCEPT !.e = Append(@, ev)]
SetT(w, f, v) == [w EXCEPT !.t[f] = v]

IsIdle(t) == t.remote_socket = "UnconnectedState"
IsConnecting(t) == t.remote_socket \in {"HostLookupState", "ConnectingState"}
IsConnected(t) == t.remote_socket = "ConnectedState"
IsClosing(t) == t.remote_socket = "ClosingState"

\* ---- RemoteDBusConnectionTunnel ----

startConnectionTimer(w) ==
    IF w.t.connection_timeout_ms # Disabled
    THEN SetT(w, "connection_timer", TRUE)
    ELSE w

\* listen() fails on a server that is listening already; otherwise the bind
\* succeeds or not (listen_ok). resumeAccepting() only after a success.
startLocalServer(w, listen_ok) ==
    LET result == (w.t.local_server = "closed") /\ listen_ok
    IN  [ret |-> result,
         w |-> IF result THEN SetT(w, "local_server", "accepting") ELSE w]

\* close() drops the listener with its backlog; abort() of the relay peer
\* severs the local link. Either way the protocol client's connection, if it
\* had one, is gone with the bytes it carried.
stopLocalServer(w) ==
    LET closed == IF w.t.local_server # "closed"
                  THEN [w EXCEPT !.t.local_server = "closed", !.n.pending = FALSE]
                  ELSE w
        nopeer == IF closed.t.local_socket
                  THEN SetT(closed, "local_socket", FALSE)
                  ELSE closed
    IN  IF w.t.local_server # "closed" \/ w.t.local_socket
        THEN [nopeer EXCEPT !.n.local_link = FALSE,
                            !.n.local_in = <<>>, !.n.local_out = <<>>]
        ELSE nopeer

\* processRemoteSocketDisconnected without stopLocalServer().
disconnectedKeepsListener(w) ==
    Emit(SetT(w, "connection_timer", FALSE), channelClosed(TRUE))

processRemoteSocketDisconnected(w) ==
    Emit(stopLocalServer(SetT(w, "connection_timer", FALSE)), channelClosed(TRUE))

\* The remote socket closed (abort(), or a disconnect that has completed):
\* UnconnectedState, nothing buffered or in flight any more.
socketAbort(w) ==
    [w EXCEPT !.t.remote_socket = "UnconnectedState",
              !.t.remote_buffer = <<>>,
              !.n.remote_in = <<>>, !.n.remote_out = <<>>]

\* disconnectRemoteSocket with the socket's signals blocked in both branches.
disconnectBlocked(w, graceful, sync_close) ==
    LET stopped == SetT(w, "connection_timer", FALSE)
    IN  IF graceful /\ ~sync_close
        THEN startConnectionTimer(SetT(stopped, "remote_socket", "ClosingState"))
        ELSE socketAbort(stopped)

\* disconnectFromHost() either completes at once (nothing left to write: the
\* socket is Unconnected and disconnected() has been emitted when it returns)
\* or leaves the socket in ClosingState (sync_close = FALSE).
disconnectRemoteSocket(w, graceful, sync_close) ==
    LET stopped == SetT(w, "connection_timer", FALSE)
    IN  IF graceful
        THEN IF sync_close
             THEN processRemoteSocketDisconnected(socketAbort(stopped))
             ELSE startConnectionTimer(SetT(stopped, "remote_socket", "ClosingState"))
        ELSE socketAbort(stopped)

processConnectionFailure(w, socket_error) ==
    CASE IsConnecting(w.t) ->
            LET down == stopLocalServer(disconnectRemoteSocket(w, FALSE, FALSE))
                told == IF ~socket_error
                        THEN Emit(down, channelError("Remote connect attempt timed out"))
                        ELSE down
            IN  Emit(told, channelOpened(FALSE))
      [] IsClosing(w.t) ->
            LET down == stopLocalServer(disconnectRemoteSocket(w, FALSE, FALSE))
                told == IF ~socket_error
                        THEN Emit(down, channelError("Remote disconnect attempt timed out, aborting"))
                        ELSE down
            IN  Emit(told, channelClosed(TRUE))
      [] OTHER -> w     \* Q_ASSERT(false): nothing happens in a release build

processRemoteSocketError(w) ==
    processConnectionFailure(Emit(w, channelError("Remote connection error")), TRUE)

processConnectionTimeout(w) == processConnectionFailure(w, FALSE)

processRemoteSocketConnected(w) ==
    Emit(SetT(w, "connection_timer", FALSE), channelOpened(TRUE))

\* QAbstractSocket::connectToHost(): on a socket that is not Unconnected it
\* only emits error(OperationError); otherwise it starts the lookup, and may
\* have connected already when it returns (sync_connect).
connectToHost(w, sync_connect) ==
    IF ~IsIdle(w.t)
    THEN processRemoteSocketError(w)
    ELSE LET fresh == [w EXCEPT !.t.remote_buffer = <<>>,
                                !.n.remote_in = <<>>, !.n.remote_out = <<>>]
         IN  IF sync_connect
             THEN processRemoteSocketConnected(SetT(fresh, "remote_socket", "ConnectedState"))
             ELSE SetT(fresh, "remote_socket", "HostLookupState")

openChannel(w, listen_ok, sync_connect) ==
    LET w1 == IF ~IsIdle(w.t) THEN Emit(w, channelOpened(FALSE)) ELSE w
        srv == startLocalServer(w1, listen_ok)
        w2 == IF ~srv.ret
              THEN Emit(Emit(srv.w, channelError("Internal error: failed to start local server")),
                        channelOpened(FALSE))
              ELSE srv.w
        w3 == connectToHost(w2, sync_connect)
    IN  IF ~IsConnected(w3.t) THEN startConnectionTimer(w3) ELSE w3

\* closeChannel that treats a dial in progress like a connection.
closeChannelGraceful(w, sync_close) ==
    CASE IsIdle(w.t) -> Emit(w, channelClosed(FALSE))
      [] IsConnecting(w.t) \/ IsConnected(w.t) -> disconnectRemoteSocket(w, TRUE, sync_close)
      [] OTHER -> w

closeChannel(w, sync_close) ==
    CASE IsIdle(w.t) -> Emit(w, channelClosed(FALSE))
      [] IsConnecting(w.t) ->
            Emit(stopLocalServer(disconnectRemoteSocket(w, FALSE, FALSE)), channelClosed(TRUE))
      [] IsConnected(w.t) -> disconnectRemoteSocket(w, TRUE, sync_close)
      [] OTHER -> w

\* abortChannel that leaves the listener and the relay peer alone.
abortRemoteOnly(w) ==
    IF IsConnecting(w.t) \/ IsConnected(w.t)
    THEN disconnectRemoteSocket(w, FALSE, FALSE)
    ELSE w

\* abortChannel that announces the teardown, as closeChannel does.
abortAndAnnounce(w) ==
    IF IsConnecting(w.t) \/ IsConnected(w.t)
    THEN Emit(stopLocalServer(disconnectRemoteSocket(w, FALSE, FALSE)), channelClosed(TRUE))
    ELSE w

abortChannel(w) ==
    IF IsConnecting(w.t) \/ IsConnected(w.t)
    THEN stopLocalServer(disconnectRemoteSocket(w, FALSE, FALSE))
    ELSE w

\* processLocalServerNewConnection without pauseAccepting().
acceptNoPause(w) ==
    [w EXCEPT !.t.local_socket = TRUE, !.n.pending = FALSE]

processLocalServerNewConnection(w) ==
    [w EXCEPT !.t.local_server = "paused", !.t.local_socket = TRUE, !.n.pending = FALSE]

\* readAll() on the source, write() of all of it on the destination.
processRemoteSocketReadyRead(w) ==
    IF ~w.t.local_socket
    THEN w
    ELSE [w EXCEPT !.t.remote_buffer = <<>>,
                   !.n.local_out = IF w.n.local_link THEN @ \o w.t.remote_buffer ELSE @]

\* processLocalSocketReadyRead that writes what it has read twice.
localReadWritesTwice(w) ==
    IF ~w.t.local_socket
    THEN w
    ELSE [w EXCEPT !.n.local_in = <<>>,
                   !.n.remote_out = @ \o w.n.local_in \o w.n.local_in]

processLocalSocketReadyRead(w) ==
    IF ~w.t.local_socket
    THEN w
    ELSE [w EXCEPT !.n.local_in = <<>>,
                   !.n.remote_out = IF w.t.remote_socket \in {"ConnectedState", "ClosingState"}
                                    THEN @ \o w.n.local_in ELSE @]

\* syncStartWrappedOperation up to its acquire(), and from the acquire() on.
clearTimedOut(t) == [t EXCEPT !.wrapped_operation_timed_out = FALSE]

\* syncStartWrappedOperation with the acquire() left out: the timer is armed
\* and the token stays where it is.
armOnly(t) ==
    [t EXCEPT !.wrapped_operation_timer =
                  IF t.wrapped_operation_timeout_ms # Disabled THEN TRUE ELSE @]

acquireAndArm(t) ==
    [t EXCEPT !.wrapped_operation_semaphore = @ - 1,
              !.wrapped_operation_timer =
                  IF t.wrapped_operation_timeout_ms # Disabled THEN TRUE ELSE @]

syncStartWrappedOperation(t) == acquireAndArm(clearTimedOut(t))

\* asyncStopWrappedOperation without its release().
asyncStopNoRelease(t, q) ==
    [t |-> t,
     q |-> IF t.wrapped_operation_timeout_ms # Disabled
           THEN Append(q, "stop") ELSE q]

\* asyncStopWrappedOperation runs in the caller's thread: q is the tunnel
\* thread's queue.
asyncStopWrappedOperation(t, q) ==
    [t |-> [t EXCEPT !.wrapped_operation_semaphore = @ + 1],
     q |-> IF t.wrapped_operation_timeout_ms # Disabled
           THEN Append(q, "stop") ELSE q]

isWrappedOperationTimedOut(t) == t.wrapped_operation_timed_out

\* processWrappedOperationTimeout that aborts and does not set the flag.
timeoutHeadNoFlag(w) ==
    IF ~IsConnected(w.t) THEN w ELSE abortChannel(w)

\* processWrappedOperationTimeout without its test of the socket's state.
timeoutHeadNoStateTest(w) ==
    abortChannel(SetT(w, "wrapped_operation_timed_out", TRUE))

\* processWrappedOperationTimeout up to its acquire(): the flag, the state
\* test and the abort.
wrappedOperationTimeoutHead(w) ==
    LET flagged == SetT(w, "wrapped_operation_timed_out", TRUE)
    IN  IF ~IsConnected(w.t) THEN flagged ELSE abortChannel(flagged)

\* ... and from the acquire() on: acquire(), release(), channelClosed(true).
wrappedOperationTimeoutTail(w) == Emit(w, channelClosed(TRUE))

\* ---- the state machine ----

Init ==
    /\ tunnel = [remote_socket |-> "UnconnectedState",
                 remote_buffer |-> <<>>,
                 local_server |-> "closed",
                 local_socket |-> FALSE,
                 connection_timer |-> FALSE,
                 wrapped_operation_timer |-> FALSE,
                 connection_timeout_ms |-> Disabled,
                 wrapped_operation_timeout_ms |-> Disabled,
                 wrapped_operation_semaphore |-> 1,
                 wrapped_operation_timed_out |-> FALSE]
    /\ net = [pending |-> FALSE, local_link |-> FALSE,
              local_in |-> <<>>, local_out |-> <<>>,
              remote_in |-> <<>>, remote_out |-> <<>>,
              sent_local |-> <<>>, got_local |-> <<>>,
              sent_remote |-> <<>>, got_remote |-> <<>>]
    /\ ioq = <<>>
    /\ io_pc = "loop"
    /\ evq = <<>>
    /\ main_pc = "loop"
    /\ ref = FALSE
    /\ last_told = "none"
    /\ unguarded = {}
    /\ pc = [p \in Positions |-> IF p = "idle" THEN NumCallers ELSE 0]

W0 == [t |-> tunnel, n |-> net, e |-> <<>>]

\* More signals may be queued for the facade thread: it has kept up, or it
\* cannot (it is inside connectToBus()).
Room == Len(evq) <= MaxEvq \/ main_pc = "binding"

\* A handler of the tunnel thread has run: its signals are queued for the
\* facade thread.
Ran(w) ==
    /\ w.e = <<>> \/ Room
    /\ tunnel' = w.t
    /\ net' = w.n
    /\ evq' = evq \o w.e

Dispatch(m) ==
    /\ io_pc = "loop"
    /\ ioq # <<>>
    /\ Head(ioq) = m
    /\ ioq' = Tail(ioq)

\* -- tunnel thread: posted events --

IoOpenChannelWith(listen_ok, sync_connect) ==
    /\ Dispatch("openChannel")
    /\ Ran(openChannel(W0, listen_ok, sync_connect))
    /\ UNCHANGED <<io_pc, main_pc, ref, last_told, unguarded, pc>>

IoOpenChannel ==
    \E listen_ok \in BOOLEAN, sync_connect \in BOOLEAN :
        IoOpenChannelWith(listen_ok, sync_connect)

IoCloseChannel ==
    /\ Dispatch("closeChannel")
    /\ \E sync_close \in BOOLEAN : Ran(closeChannel(W0, sync_close))
    /\ UNCHANGED <<io_pc, main_pc, ref, last_told, unguarded, pc>>

IoAbortChannel ==
    /\ Dispatch("abortChannel")
    /\ Ran(abortChannel(W0))
    /\ UNCHANGED <<io_pc, main_pc, ref, last_told, unguarded, pc>>

IoTimerStop ==
    /\ Dispatch("stop")
    /\ tunnel' = [tunnel EXCEPT !.wrapped_operation_timer = FALSE]
    /\ UNCHANGED <<net, io_pc, evq, main_pc, ref, last_told, unguarded, pc>>

\* A thread reads or writes a plain data member of the tunnel that another
\* thread reads or writes too, and holds no QMutexLocker on tunnel->mutex.
Unguarded(thread, member) ==
    unguarded' = unguarded \cup {[thread |-> thread, member |-> member]}

\* One caller thread goes from one position to the next.
Move(from, to) ==
    /\ pc[from] > 0
    /\ pc' = [pc EXCEPT ![from] = @ - 1, ![to] = @ + 1]

\* syncStartWrappedOperation: with the token free it runs to its end and the
\* caller's blocking invocation returns; otherwise the tunnel thread stays in
\* acquire().
IoSyncStart ==
    /\ Dispatch("syncStartWrappedOperation")
    /\ IF tunnel.wrapped_operation_semaphore > 0
       THEN /\ tunnel' = syncStartWrappedOperation(tunnel)
            /\ Unguarded("tunnel", "wrapped_operation_timeout_ms")
            /\ Move("start", "body")
            /\ io_pc' = io_pc
       ELSE /\ tunnel' = clearTimedOut(tunnel)
            /\ io_pc' = "syncStart"
            /\ UNCHANGED <<unguarded, pc>>
    /\ UNCHANGED <<net, evq, main_pc, ref, last_told>>

IoSyncStartResume ==
    /\ io_pc = "syncStart"
    /\ tunnel.wrapped_operation_semaphore > 0
    /\ tunnel' = acquireAndArm(tunnel)
    /\ Unguarded("tunnel", "wrapped_operation_timeout_ms")
    /\ Move("start", "body")
    /\ io_pc' = "loop"
    /\ UNCHANGED <<net, ioq, evq, main_pc, ref, last_told>>

\* -- tunnel thread: timers (single shot) --

IoConnectionTimeout ==
    /\ io_pc = "loop"
    /\ tunnel.connection_timer
    /\ Ran(processConnectionTimeout(SetT(W0, "connection_timer", FALSE)))
    /\ UNCHANGED <<ioq, io_pc, main_pc, ref, last_told, unguarded, pc>>

\* The deadline's handler for a timer that expires only while the token is
\* taken.
IoWrappedOperationTimeoutInFlight ==
    /\ io_pc = "loop"
    /\ tunnel.wrapped_operation_timer
    /\ tunnel.wrapped_operation_semaphore = 0
    /\ LET fired == SetT(W0, "wrapped_operation_timer", FALSE)
           head == wrappedOperationTimeoutHead(fired)
       IN  IF ~IsConnected(tunnel)
           THEN Ran(head) /\ io_pc' = io_pc
           ELSE IF tunnel.wrapped_operation_semaphore > 0
                THEN Ran(wrappedOperationTimeoutTail(head)) /\ io_pc' = io_pc
                ELSE Ran(head) /\ io_pc' = "timeout"
    /\ UNCHANGED <<ioq, main_pc, ref, last_told, unguarded, pc>>

\* processWrappedOperationTimeout without its acquire() and release().
IoWrappedOperationTimeoutNoWait ==
    /\ io_pc = "loop"
    /\ tunnel.wrapped_operation_timer
    /\ LET fired == SetT(W0, "wrapped_operation_timer", FALSE)
           head == wrappedOperationTimeoutHead(fired)
       IN  IF ~IsConnected(tunnel)
           THEN Ran(head) /\ io_pc' = io_pc
           ELSE Ran(wrappedOperationTimeoutTail(head)) /\ io_pc' = io_pc
    /\ UNCHANGED <<ioq, main_pc, ref, last_told, unguarded, pc>>

IoWrappedOperationTimeout ==
    /\ io_pc = "loop"
    /\ tunnel.wrapped_operation_timer
    /\ LET fired == SetT(W0, "wrapped_operation_timer", FALSE)
           head == wrappedOperationTimeoutHead(fired)
       IN  IF ~IsConnected(tunnel)
           THEN Ran(head) /\ io_pc' = io_pc
           ELSE IF tunnel.wrapped_operation_semaphore > 0
                THEN Ran(wrappedOperationTimeoutTail(head)) /\ io_pc' = io_pc
                ELSE Ran(head) /\ io_pc' = "timeout"
    /\ UNCHANGED <<ioq, main_pc, ref, last_told, unguarded, pc>>

IoWrappedOperationTimeoutResume ==
    /\ io_pc = "timeout"
    /\ tunnel.wrapped_operation_semaphore > 0
    /\ Ran(wrappedOperationTimeoutTail(W0))
    /\ io_pc' = "loop"
    /\ UNCHANGED <<ioq, main_pc, ref, last_told, unguarded, pc>>

\* -- tunnel thread: socket notifications --

HostFound ==
    /\ io_pc = "loop"
    /\ tunnel.remote_socket = "HostLookupState"
    /\ tunnel' = [tunnel EXCEPT !.remote_socket = "ConnectingState"]
    /\ UNCHANGED <<net, ioq, io_pc, evq, main_pc, ref, last_told, unguarded, pc>>

RemoteConnected ==
    /\ io_pc = "loop"
    /\ tunnel.remote_socket = "ConnectingState"
    /\ Ran(processRemoteSocketConnected(SetT(W0, "remote_socket", "ConnectedState")))
    /\ UNCHANGED <<ioq, io_pc, main_pc, ref, last_told, unguarded, pc>>

\* The lookup or the connect failed. QAbstractSocket emits error() for it;
\* whether state() is UnconnectedState already when the slot runs is the
\* library's business: both orders are taken.
RemoteConnectFailed ==
    /\ io_pc = "loop"
    /\ IsConnecting(tunnel)
    /\ \E unconnected_first \in BOOLEAN :
           Ran(IF unconnected_first
               THEN processRemoteSocketError(socketAbort(W0))
               ELSE socketAbort(processRemoteSocketError(W0)))
    /\ UNCHANGED <<ioq, io_pc, main_pc, ref, last_told, unguarded, pc>>

\* The remote side went away while connected: error(RemoteHostClosedError)
\* or none, then disconnected().
RemoteLost ==
    /\ io_pc = "loop"
    /\ IsConnected(tunnel)
    /\ \E with_error \in BOOLEAN :
           Ran(processRemoteSocketDisconnected(
                   socketAbort(IF with_error THEN processRemoteSocketError(W0) ELSE W0)))
    /\ UNCHANGED <<ioq, io_pc, main_pc, ref, last_told, unguarded, pc>>

\* A graceful disconnect completes, or fails with a socket error.
RemoteDisconnected ==
    /\ io_pc = "loop"
    /\ IsClosing(tunnel)
    /\ Ran(processRemoteSocketDisconnected(socketAbort(W0)))
    /\ UNCHANGED <<ioq, io_pc, main_pc, ref, last_told, unguarded, pc>>

RemoteCloseFailed ==
    /\ io_pc = "loop"
    /\ IsClosing(tunnel)
    /\ Ran(processRemoteSocketError(W0))
    /\ UNCHANGED <<ioq, io_pc, main_pc, ref, last_told, unguarded, pc>>

LocalNewConnection ==
    /\ io_pc = "loop"
    /\ net.pending
    /\ tunnel.local_server = "accepting"
    /\ Ran(processLocalServerNewConnection(W0))
    /\ UNCHANGED <<ioq, io_pc, main_pc, ref, last_told, unguarded, pc>>

LocalReadyRead ==
    /\ io_pc = "loop"
    /\ tunnel.local_socket
    /\ net.local_in # <<>>
    /\ Ran(processLocalSocketReadyRead(W0))
    /\ UNCHANGED <<ioq, io_pc, main_pc, ref, last_told, unguarded, pc>>

\* New bytes from the remote side: they join what the socket has buffered,
\* and readyRead() is emitted.
RemoteReadyRead ==
    /\ io_pc = "loop"
    /\ tunnel.remote_socket \in {"ConnectedState", "ClosingState"}
    /\ net.remote_in # <<>>
    /\ Ran(processRemoteSocketReadyRead(
               [W0 EXCEPT !.t.remote_buffer = @ \o net.remote_in, !.n.remote_in = <<>>]))
    /\ UNCHANGED <<ioq, io_pc, main_pc, ref, last_told, unguarded, pc>>

\* -- the remote peer --

PeerResponds ==
    /\ net.remote_out # <<>>
    /\ net' = [net EXCEPT !.remote_out = Tail(@),
                          !.remote_in = Append(@, Head(net.remote_out))]
    /\ UNCHANGED <<tunnel, ioq, io_pc, evq, main_pc, ref, last_told, unguarded, pc>>

\* ---- RemoteDBusConnection, in the facade's thread ----

isConnectionOpened == ref

\* disconnectFromBus() closes the protocol client's connection to the
\* listener; delete ref.
dropNativeDBusConnection(n) ==
    [n EXCEPT !.local_link = FALSE, !.local_out = <<>>, !.pending = FALSE]

openConnection ==
    /\ main_pc = "loop"
    /\ Len(evq) <= MaxEvq
    /\ ~isConnectionOpened
    /\ Len(ioq) < MaxIoq
    /\ ioq' = Append(ioq, "openChannel")
    /\ UNCHANGED <<tunnel, net, io_pc, evq, main_pc, ref, last_told, unguarded, pc>>

closeConnection ==
    /\ main_pc = "loop"
    /\ isConnectionOpened
    /\ Len(ioq) < MaxIoq
    /\ net' = dropNativeDBusConnection(net)
    /\ ref' = FALSE
    /\ ioq' = Append(ioq, "closeChannel")
    /\ UNCHANGED <<tunnel, io_pc, evq, main_pc, last_told, unguarded, pc>>

setConnectionTimeout ==
    /\ main_pc = "loop"
    /\ \E timeout_ms \in TimeoutValues \ {tunnel.connection_timeout_ms} :
           tunnel' = [tunnel EXCEPT !.connection_timeout_ms = timeout_ms]
    /\ UNCHANGED <<net, ioq, io_pc, evq, main_pc, ref, last_told, unguarded, pc>>

setWrappedOperationTimeout ==
    /\ main_pc = "loop"
    /\ \E timeout_ms \in TimeoutValues \ {tunnel.wrapped_operation_timeout_ms} :
           tunnel' = [tunnel EXCEPT !.wrapped_operation_timeout_ms = timeout_ms]
    /\ Unguarded("facade", "wrapped_operation_timeout_ms")
    /\ UNCHANGED <<net, ioq, io_pc, evq, main_pc, ref, last_told, pc>>

\* The same branch without the abort.
bindingFailedNoAbort ==
    /\ net' = dropNativeDBusConnection(net)
    /\ ref' = FALSE
    /\ ioq' = ioq
    /\ last_told' = "bindFailed"
    /\ main_pc' = "loop"

\* The same branch without dropNativeDBusConnection(): ref keeps the
\* QDBusConnection that is not connected.
bindingFailedNoDrop ==
    /\ net' = net
    /\ ref' = TRUE
    /\ ioq' = Append(ioq, "abortChannel")
    /\ last_told' = "bindFailed"
    /\ main_pc' = "loop"

\* The branch of processTunnelChannelOpened for a binding that is not
\* connected: drop it, queue the abort, connectionError, connectionOpened(false).
bindingFailed ==
    /\ net' = dropNativeDBusConnection(net)
    /\ ref' = FALSE
    /\ ioq' = Append(ioq, "abortChannel")
    /\ last_told' = "bindFailed"
    /\ main_pc' = "loop"

\* The operations that wait for an answer on a connection that is gone fail:
\* the next connection is not theirs.
cutOff(p) == [p EXCEPT !["failed"] = @ + p["await"], !["await"] = 0]

\* processTunnelChannelOpened(true): connectToBus() connects to the listener
\* and sends its handshake; it returns when the answer has come back through
\* the relay, or when the connection is gone.
processTunnelChannelOpened ==
    /\ main_pc = "loop"
    /\ evq # <<>>
    /\ Head(evq) = channelOpened(TRUE)
    /\ evq' = Tail(evq)
    /\ IF tunnel.local_server # "closed"
       THEN /\ net' = [net EXCEPT !.pending = TRUE, !.local_link = TRUE,
                                  !.local_in = <<0>>, !.local_out = <<>>]
            /\ main_pc' = "binding"
            /\ pc' = IF net.local_link THEN pc ELSE cutOff(pc)
            /\ UNCHANGED <<ioq, ref, last_told>>
       ELSE bindingFailed /\ pc' = pc
    /\ UNCHANGED <<tunnel, io_pc, unguarded>>

connectToBusReturns ==
    /\ main_pc = "binding"
    /\ \/ /\ net.local_out # <<>>
          /\ \E connected \in BOOLEAN :
                 IF connected
                 THEN /\ net' = [net EXCEPT !.local_out = Tail(@)]
                      /\ ref' = TRUE
                      /\ last_told' = "opened"
                      /\ main_pc' = "loop"
                      /\ ioq' = ioq
                 ELSE bindingFailed
       \/ /\ ~net.local_link
          /\ bindingFailed
    /\ UNCHANGED <<tunnel, io_pc, evq, unguarded, pc>>

processTunnelChannelOpenedFalse ==
    /\ main_pc = "loop"
    /\ evq # <<>>
    /\ Head(evq) = channelOpened(FALSE)
    /\ evq' = Tail(evq)
    /\ last_told' = "refused"
    /\ UNCHANGED <<tunnel, net, ioq, io_pc, main_pc, ref, unguarded, pc>>

\* processTunnelChannelClosed without dropNativeDBusConnection().
channelClosedNoDrop ==
    /\ main_pc = "loop"
    /\ evq # <<>>
    /\ Head(evq).sig = "channelClosed"
    /\ evq' = Tail(evq)
    /\ last_told' = IF Head(evq).success THEN "closed" ELSE last_told
    /\ UNCHANGED <<tunnel, net, ioq, io_pc, main_pc, ref, unguarded, pc>>

\* processTunnelChannelClosed without the test of success.
channelClosedAlways ==
    /\ main_pc = "loop"
    /\ evq # <<>>
    /\ Head(evq).sig = "channelClosed"
    /\ evq' = Tail(evq)
    /\ net' = IF ref THEN dropNativeDBusConnection(net) ELSE net
    /\ ref' = FALSE
    /\ last_told' = "closed"
    /\ UNCHANGED <<tunnel, ioq, io_pc, main_pc, unguarded, pc>>

processTunnelChannelClosed ==
    /\ main_pc = "loop"
    /\ evq # <<>>
    /\ Head(evq).sig = "channelClosed"
    /\ evq' = Tail(evq)
    /\ IF Head(evq).success
       THEN /\ net' = IF ref THEN dropNativeDBusConnection(net) ELSE net
            /\ ref' = FALSE
            /\ last_told' = "closed"
       ELSE UNCHANGED <<net, ref, last_told>>
    /\ UNCHANGED <<tunnel, ioq, io_pc, main_pc, unguarded, pc>>

\* channelError is connected to connectionError; executeWrappedOperation
\* queues connectionError for the facade's own thread.
deliverConnectionError ==
    /\ main_pc = "loop"
    /\ evq # <<>>
    /\ Head(evq).sig \in {"channelError", "connectionError"}
    /\ evq' = Tail(evq)
    /\ UNCHANGED <<tunnel, net, ioq, io_pc, main_pc, ref, last_told, unguarded, pc>>

\* ---- executeWrappedOperation, in a caller's thread ----

\* The callers between the return of syncStartWrappedOperation and
\* asyncStopWrappedOperation.
Holders == pc["body"] + pc["await"] + pc["failed"] + pc["stop"]

\* executeWrappedOperation without its test of the binding.
executeWrappedOperationUnchecked ==
    /\ Move("idle", "start")
    /\ ioq' = Append(ioq, "syncStartWrappedOperation")
    /\ UNCHANGED <<tunnel, net, io_pc, evq, main_pc, ref, last_told, unguarded>>

executeWrappedOperation ==
    /\ isConnectionOpened /\ net.local_link
    /\ Move("idle", "start")
    /\ ioq' = Append(ioq, "syncStartWrappedOperation")
    /\ UNCHANGED <<tunnel, net, io_pc, evq, main_pc, ref, last_told, unguarded>>

\* operation(): one that needs no answer from the bus ...
operationLocal ==
    /\ \E success \in BOOLEAN : Move("body", IF success THEN "stop" ELSE "failed")
    /\ UNCHANGED <<tunnel, net, ioq, io_pc, evq, main_pc, ref, last_told, unguarded>>

\* ... or one that sends a request and blocks until the answer has come back
\* through the relay, or until its connection is gone.
operationRequest ==
    /\ net.local_link
    /\ Move("body", "await")
    /\ net' = [net EXCEPT !.local_in = Append(@, 1)]
    /\ UNCHANGED <<tunnel, ioq, io_pc, evq, main_pc, ref, last_told, unguarded>>

operationReply ==
    /\ net.local_out # <<>>
    /\ \E success \in BOOLEAN : Move("await", IF success THEN "stop" ELSE "failed")
    /\ net' = [net EXCEPT !.local_out = Tail(@)]
    /\ UNCHANGED <<tunnel, ioq, io_pc, evq, main_pc, ref, last_told, unguarded>>

operationSevered ==
    /\ ~net.local_link
    /\ Move("await", "failed")
    /\ UNCHANGED <<tunnel, net, ioq, io_pc, evq, main_pc, ref, last_told, unguarded>>

operationErrorMessage(t) ==
    IF ~isWrappedOperationTimedOut(t)
    THEN "D-Bus operation failed"
    ELSE "D-Bus operation timed out"

\* The failure branch of executeWrappedOperation queueing its error twice.
reportFailureTwice ==
    /\ Room
    /\ Move("failed", "stop")
    /\ evq' = evq \o <<connectionError(operationErrorMessage(tunnel)),
                       connectionError(operationErrorMessage(tunnel))>>
    /\ Unguarded("caller", "wrapped_operation_timed_out")
    /\ UNCHANGED <<tunnel, net, ioq, io_pc, main_pc, ref, last_told>>

\* The failure branch of executeWrappedOperation after the release: the
\* caller has left when its error is queued.
reportFailureAfterStop ==
    /\ Room
    /\ Move("failed", "idle")
    /\ evq' = Append(evq, connectionError(operationErrorMessage(tunnel)))
    /\ tunnel' = [tunnel EXCEPT !.wrapped_operation_semaphore = @ + 1]
    /\ Unguarded("caller", "wrapped_operation_timed_out")
    /\ UNCHANGED <<net, ioq, io_pc, main_pc, ref, last_told>>

reportFailure ==
    /\ Room
    /\ Move("failed", "stop")
    /\ evq' = Append(evq, connectionError(operationErrorMessage(tunnel)))
    /\ Unguarded("caller", "wrapped_operation_timed_out")
    /\ UNCHANGED <<tunnel, net, ioq, io_pc, main_pc, ref, last_told>>

stopWrappedOperation ==
    /\ Move("stop", "idle")
    /\ LET r == asyncStopWrappedOperation(tunnel, ioq)
       IN  tunnel' = r.t /\ ioq' = r.q
    /\ Unguarded("caller", "wrapped_operation_timeout_ms")
    /\ UNCHANGED <<net, io_pc, evq, main_pc, ref, last_told>>

\* ---- specification ----

TunnelThread ==
    \/ IoOpenChannel \/ IoCloseChannel \/ IoAbortChannel \/ IoTimerStop
    \/ IoSyncStart \/ IoSyncStartResume
    \/ IoConnectionTimeout
    \/ IoWrappedOperationTimeout \/ IoWrappedOperationTimeoutResume
    \/ HostFound \/ RemoteConnected \/ RemoteConnectFailed \/ RemoteLost
    \/ RemoteDisconnected \/ RemoteCloseFailed
    \/ LocalNewConnection \/ LocalReadyRead \/ RemoteReadyRead

FacadeThread ==
    \/ openConnection \/ closeConnection
    \/ setConnectionTimeout \/ setWrappedOperationTimeout
    \/ processTunnelChannelOpened \/ connectToBusReturns
    \/ processTunnelChannelOpenedFalse \/ processTunnelChannelClosed
    \/ deliverConnectionError

CallerThread ==
    \/ executeWrappedOperation
    \/ operationLocal \/ operationRequest \/ operationReply
    \/ operationSevered
    \/ reportFailure \/ stopWrappedOperation

Next ==
    \/ TunnelThread
    \/ FacadeThread
    \/ CallerThread
    \/ PeerResponds

Spec == Init /\ [][Next]_vars

\* What the scheduling guarantees. The tunnel thread's event loop gets to
\* every posted event, expired timer and local socket notification, and a
\* blocked acquire() returns once the token is free; the facade's event loop
\* gets to every queued signal, and connectToBus() returns; a caller thread
\* keeps running. Nothing is promised about the remote side (that it
\* connects, answers, closes or fails) nor about what the user calls.
\* A step that queues signals for the facade waits for Room here and never in
\* the program: it is taken if it can be taken again and again.
TunnelFairness ==
    /\ SF_vars(IoOpenChannel) /\ SF_vars(IoCloseChannel) /\ WF_vars(IoAbortChannel)
    /\ WF_vars(IoTimerStop)
    /\ WF_vars(IoSyncStart) /\ WF_vars(IoSyncStartResume)
    /\ SF_vars(IoConnectionTimeout)
    /\ SF_vars(IoWrappedOperationTimeout) /\ SF_vars(IoWrappedOperationTimeoutResume)
    /\ WF_vars(LocalNewConnection) /\ WF_vars(LocalReadyRead) /\ WF_vars(RemoteReadyRead)

FacadeFairness ==
    /\ WF_vars(processTunnelChannelOpened) /\ WF_vars(connectToBusReturns)
    /\ WF_vars(processTunnelChannelOpenedFalse) /\ WF_vars(processTunnelChannelClosed)
    /\ WF_vars(deliverConnectionError)

CallerFairness ==
    /\ WF_vars(operationLocal \/ operationRequest)
    /\ WF_vars(operationReply) /\ WF_vars(operationSevered)
    /\ SF_vars(reportFailure) /\ WF_vars(stopWrappedOperation)

FairSpec == Spec /\ TunnelFairness /\ FacadeFairness /\ CallerFairness

\* ---- the relay alone ----

\* The tunnel is Connected and the protocol client's connection to the
\* listener is pending. The two ends write bytes of their choice, at most
\* MaxBytes each, and read what has reached them; the tunnel thread runs the
\* newConnection and readyRead handlers in any order.
Bytes == {0, 1}

RelayInit ==
    /\ tunnel = [remote_socket |-> "ConnectedState",
                 remote_buffer |-> <<>>,
                 local_server |-> "accepting",
                 local_socket |-> FALSE,
                 connection_timer |-> FALSE,
                 wrapped_operation_timer |-> FALSE,
                 connection_timeout_ms |-> Disabled,
                 wrapped_operation_timeout_ms |-> Disabled,
                 wrapped_operation_semaphore |-> 1,
                 wrapped_operation_timed_out |-> FALSE]
    /\ net = [pending |-> TRUE, local_link |-> TRUE,
              local_in |-> <<>>, local_out |-> <<>>,
              remote_in |-> <<>>, remote_out |-> <<>>,
              sent_local |-> <<>>, got_local |-> <<>>,
              sent_remote |-> <<>>, got_remote |-> <<>>]
    /\ ioq = <<>>
    /\ io_pc = "loop"
    /\ evq = <<>>
    /\ main_pc = "binding"
    /\ ref = FALSE
    /\ last_told = "none"
    /\ unguarded = {}
    /\ pc = [p \in Positions |-> IF p = "idle" THEN NumCallers ELSE 0]

Rest == <<tunnel, ioq, io_pc, evq, main_pc, ref, last_told, unguarded, pc>>

ClientWrites ==
    /\ Len(net.sent_local) < MaxBytes
    /\ \E b \in Bytes :
           net' = [net EXCEPT !.local_in = Append(@, b), !.sent_local = Append(@, b)]
    /\ UNCHANGED Rest

ClientReads ==
    /\ net.local_out # <<>>
    /\ net' = [net EXCEPT !.local_out = Tail(@),
                          !.got_local = Append(@, Head(net.local_out))]
    /\ UNCHANGED Rest

RemoteWrites ==
    /\ Len(net.sent_remote) < MaxBytes
    /\ \E b \in Bytes :
           net' = [net EXCEPT !.remote_in = Append(@, b), !.sent_remote = Append(@, b)]
    /\ UNCHANGED Rest

RemoteReads ==
    /\ net.remote_out # <<>>
    /\ net' = [net EXCEPT !.remote_out = Tail(@),
                          !.got_remote = Append(@, Head(net.remote_out))]
    /\ UNCHANGED Rest

RelayNext ==
    \/ ClientWrites \/ ClientReads \/ RemoteWrites \/ RemoteReads
    \/ LocalNewConnection \/ LocalReadyRead \/ RemoteReadyRead

RelaySpec == RelayInit /\ [][RelayNext]_vars

\* The tunnel thread's event loop gets to every newConnection() and
\* readyRead() notification, and each end reads what has reached it. Nothing
\* is promised about what the two ends write.
RelayFairness ==
    /\ WF_vars(LocalNewConnection)
    /\ WF_vars(LocalReadyRead) /\ WF_vars(RemoteReadyRead)
    /\ WF_vars(ClientReads) /\ WF_vars(RemoteReads)

FairRelaySpec == RelaySpec /\ RelayFairness

\* ---- properties ----

\* C1: at most one caller thread is between the return of
\* syncStartWrappedOperation and its own asyncStopWrappedOperation, however
\* many threads run executeWrappedOperation.
MutualExclusion == Holders <= 1

\* A second caller's syncStartWrappedOperation waits in acquire() while the
\* first caller is inside its operation.
MutualExclusionWitness ==
    /\ io_pc = "syncStart"
    /\ pc["start"] >= 1
    /\ pc["body"] + pc["await"] = 1

\* C2: a caller whose syncStartWrappedOperation waits for the token, while an
\* operation with an armed deadline holds it, gets the token in the end: the
\* tunnel thread leaves acquire().
NoDeadlockBetweenCallers ==
    (io_pc = "syncStart" /\ tunnel.wrapped_operation_timer) ~> (io_pc = "loop")

\* C3: connected and with its deadline armed, an operation that waits for an
\* answer does not keep the token for ever.
BoundedBlocking ==
    (pc["await"] > 0 /\ tunnel.wrapped_operation_timer /\ IsConnected(tunnel))
        ~> (Holders = 0)

\* A tunnel at rest: remote socket unconnected, listener closed, no relay
\* peer, connection timer not armed.
AtRest(t) ==
    /\ IsIdle(t)
    /\ t.local_server = "closed"
    /\ ~t.local_socket
    /\ ~t.connection_timer

\* C4: the operation's deadline fires while the tunnel is connected and a
\* caller holds the token. The handler queues no signal until the token is
\* back and then exactly channelClosed(true); as long as it waits, the flag
\* is up, and the caller that reports its failure reports a timeout. The
\* next syncStartWrappedOperation takes the flag down, and only a deadline
\* that fires puts it up again.
OperationTimeoutReported ==
    /\ [](io_pc = "timeout" => isWrappedOperationTimedOut(tunnel))
    /\ [][/\ (io_pc = "loop" /\ io_pc' = "timeout") => evq' = evq
          /\ (io_pc = "timeout" /\ io_pc' = "timeout") =>
                 \/ evq' = evq
                 \/ evq # <<>> /\ evq' = Tail(evq)
                 \/ /\ pc'["failed"] < pc["failed"]
                    /\ evq' = Append(evq, connectionError("D-Bus operation timed out"))
          /\ (io_pc = "timeout" /\ io_pc' = "loop") =>
                 evq' = Append(evq, channelClosed(TRUE))
          /\ IoSyncStart => ~isWrappedOperationTimedOut(tunnel')
          /\ (~isWrappedOperationTimedOut(tunnel) /\ isWrappedOperationTimedOut(tunnel')) =>
                 (tunnel.wrapped_operation_timer /\ ~tunnel'.wrapped_operation_timer)
         ]_vars

\* The handler has aborted the channel and waits for the token; the caller's
\* operation has failed and is about to be reported.
OperationTimeoutWitness ==
    /\ io_pc = "timeout"
    /\ pc["failed"] = 1
    /\ isWrappedOperationTimedOut(tunnel)
    /\ AtRest(tunnel)

\* C5: a wrapped operation that begins while wrapped_operation_timeout_ms is
\* the disabled value begins with no deadline armed, so that no timer can
\* tear it down.
DisabledSentinel ==
    [][(pc'["body"] = pc["body"] + 1 /\ tunnel.wrapped_operation_timeout_ms = Disabled)
           => ~tunnel'.wrapped_operation_timer]_vars

\* C6, as claimed: abortChannel in any state but Idle leaves the tunnel at
\* rest.
AbortEndsIdle ==
    ~IsIdle(tunnel) => AtRest(abortChannel(W0).t)

\* C6, as the code has it: abortChannel while connecting or connected leaves
\* the tunnel at rest; while the remote socket is closing it does nothing.
AbortEndsIdleUnlessClosing ==
    LET a == abortChannel(W0)
    IN  /\ (IsConnecting(tunnel) \/ IsConnected(tunnel)) => AtRest(a.t)
        /\ IsClosing(tunnel) => a = W0

\* A graceful disconnect is under way, its timer armed and the relay peer
\* still there, and abortChannel changes none of it.
AbortWhileClosingWitness ==
    /\ IsClosing(tunnel)
    /\ tunnel.connection_timer
    /\ tunnel.local_socket
    /\ abortChannel(W0).t = tunnel

\* C7: abortChannel emits no signal; a second abortChannel right after the
\* first changes nothing; on an idle tunnel the first changes nothing.
AbortIdempotent ==
    LET a == abortChannel(W0)
    IN  /\ a.e = <<>>
        /\ abortChannel(a) = a
        /\ IsIdle(tunnel) => a = W0

\* Two aborts are waiting in a row for a tunnel that is connected and relays.
AbortTwiceWitness ==
    /\ Len(ioq) >= 2
    /\ ioq[1] = "abortChannel" /\ ioq[2] = "abortChannel"
    /\ IsConnected(tunnel)
    /\ tunnel.local_socket
    /\ abortChannel(W0) # W0

OpenWhileNotIdle ==
    [][(IoOpenChannel /\ ~IsIdle(tunnel))
           => /\ evq' = Append(evq, channelOpened(FALSE))
              /\ tunnel'.remote_socket = tunnel.remote_socket
              /\ tunnel'.local_server = tunnel.local_server
              /\ tunnel'.local_socket = tunnel.local_socket
              /\ tunnel'.connection_timer = tunnel.connection_timer]_vars

\* C10: openChannel on an idle tunnel whose listener cannot be started emits
\* the internal channelError and channelOpened(false), dials nothing, arms
\* no timer and leaves the tunnel idle.
ListenerFailureFailsFast ==
    [][\A sync_connect \in BOOLEAN :
           (IoOpenChannelWith(FALSE, sync_connect) /\ IsIdle(tunnel))
               => /\ evq' = evq \o <<channelError("Internal error: failed to start local server"),
                                     channelOpened(FALSE)>>
                  /\ IsIdle(tunnel')
                  /\ tunnel'.connection_timer = tunnel.connection_timer]_vars

\* The number of times a signal is in a queue.
Count(q, ev) == Cardinality({i \in 1..Len(q) : q[i] = ev})

\* C11: whenever the remote socket becomes connected, the listener is
\* listening, the connection timer is not armed and channelOpened(true) has
\* been emitted once.
RemoteConnectedEvent ==
    [][(~IsConnected(tunnel) /\ IsConnected(tunnel'))
           => /\ tunnel'.local_server # "closed"
              /\ ~tunnel'.connection_timer
              /\ Count(evq', channelOpened(TRUE)) = Count(evq, channelOpened(TRUE)) + 1]_vars

\* C12: a relay peer exists only beside a listener that has paused
\* accepting; the listener reports a new connection only when there is no
\* relay peer, and pauses at once; it accepts again only through openChannel.
OneRelayPeer ==
    /\ [](tunnel.local_socket => tunnel.local_server = "paused")
    /\ [][/\ LocalNewConnection =>
                 (~tunnel.local_socket /\ tunnel'.local_socket /\ tunnel'.local_server = "paused")
          /\ (tunnel.local_server # "accepting" /\ tunnel'.local_server = "accepting") =>
                 IoOpenChannel
         ]_vars

\* The listener has handed over the connection of the binding and has
\* paused; the relay peer carries the binding's handshake.
OneRelayPeerWitness ==
    /\ tunnel.local_socket
    /\ tunnel.local_server = "paused"
    /\ main_pc = "binding"
    /\ net.local_link /\ ~net.pending
    /\ net.local_in # <<>>

\* C13: the binding exists only while the tunnel is Connected; a state in
\* which the notification of the teardown is still queued for the facade, or
\* the tunnel is between the two halves of processWrappedOperationTimeout, is
\* not counted against it.
BindingOnlyWhileConnected ==
    ref => \/ IsConnected(tunnel)
           \/ Count(evq, channelClosed(TRUE)) > 0
           \/ io_pc = "timeout"

\* C14: from the moment the facade emits connectionClosed() or
\* connectionOpened(false) until it emits connectionOpened(true), there is
\* no binding.
NoStaleBinding ==
    last_told \in {"closed", "bindFailed", "refused"} => ~ref

\* C14, amended: there is no binding from connectionClosed(), or from the
\* connectionOpened(false) of a failed bind, until connectionOpened(true);
\* the connectionOpened(false) that relays channelOpened(false) leaves the
\* binding as it is.
NoStaleBindingUnlessRelayed ==
    /\ [](last_told \in {"closed", "bindFailed"} => ~ref)
    /\ [][processTunnelChannelOpenedFalse => ref' = ref]_vars

\* The facade has torn the binding down on channelClosed(true), while the
\* next attempt is already connected.
NoStaleBindingWitness ==
    /\ last_told = "closed"
    /\ ~ref
    /\ IsConnected(tunnel)
    /\ Count(evq, channelOpened(TRUE)) = 1

\* C15: the facade takes the tunnel's signals oldest first; it emits
\* connectionClosed() only when the last thing it announced was
\* connectionOpened(true); and once it has announced connectionOpened(true),
\* the next outcome it announces, a relayed connectionOpened(false) apart, is
\* connectionClosed().
EventOrdering ==
    /\ [][\/ evq # <<>> /\ evq' = Tail(evq)
          \/ Len(evq') >= Len(evq) /\ SubSeq(evq', 1, Len(evq)) = evq]_vars
    /\ [][(processTunnelChannelClosed /\ Head(evq).success) => last_told = "opened"]_vars
    /\ [][(last_told = "opened" /\ last_told' # "opened")
              => last_told' \in {"closed", "refused"}]_vars

\* The signals a step has queued for the facade thread.
Queued == SubSeq(evq', Len(evq) + 1, Len(evq'))

\* Scenario B from a tunnel at rest: openChannel with a listener that binds,
\* the remote connecting within connectToHost() or later, closeChannel, the
\* disconnect completing within disconnectFromHost() or later.
ScenarioB(w, sync_connect, sync_close) ==
    LET dialled == openChannel(w, TRUE, sync_connect)
        opened == IF IsConnected(dialled.t)
                  THEN dialled
                  ELSE processRemoteSocketConnected(
                           SetT(dialled, "remote_socket", "ConnectedState"))
        closing == closeChannel(opened, sync_close)
    IN  IF IsClosing(closing.t)
        THEN processRemoteSocketDisconnected(socketAbort(closing))
        ELSE closing

CloseWhileConnecting ==
    [][/\ (IoCloseChannel /\ IsConnecting(tunnel))
            => Queued = <<channelClosed(TRUE)>> /\ AtRest(tunnel')
       /\ (IsIdle(tunnel) /\ \E b \in BOOLEAN :
                                 Count(evq', channelOpened(b)) > Count(evq, channelOpened(b)))
            => IoOpenChannel
      ]_vars

\* connectionClosed() has been delivered for a connection the remote side
\* dropped; the dial of a second openConnection() has been cut short by
\* closeChannel and its channelClosed(true) waits for the facade.
CloseWhileConnectingWitness ==
    /\ AtRest(tunnel)
    /\ evq = <<channelClosed(TRUE)>>
    /\ last_told = "closed"
    /\ main_pc = "loop"
    /\ ioq = <<>>

\* C18: closeChannel handled while the tunnel is Connected queues nothing
\* and leaves the tunnel Closing, the connection timer armed exactly when a
\* timeout is configured, the listener and the relay peer as they were
\* (unless the disconnect has completed within the call); while the tunnel is
\* Closing the listener is closed and the relay peer dropped only by the
\* disconnected(), error() and timer handlers.
CloseWhileConnected ==
    [][/\ (IoCloseChannel /\ IsConnected(tunnel))
            => \/ /\ IsClosing(tunnel')
                  /\ Queued = <<>>
                  /\ tunnel'.connection_timer = (tunnel.connection_timeout_ms # Disabled)
                  /\ tunnel'.local_server = tunnel.local_server
                  /\ tunnel'.local_socket = tunnel.local_socket
               \/ /\ AtRest(tunnel')
                  /\ Queued = <<channelClosed(TRUE)>>
       /\ (/\ IsClosing(tunnel)
           /\ \/ tunnel.local_server # "closed" /\ tunnel'.local_server = "closed"
              \/ tunnel.local_socket /\ ~tunnel'.local_socket)
            => RemoteDisconnected \/ RemoteCloseFailed \/ IoConnectionTimeout
      ]_vars

\* C19: closeChannel handled while the tunnel is Idle queues exactly
\* channelClosed(false) and changes nothing else, and the facade drops that
\* signal without announcing anything or touching the binding; closeChannel
\* handled while the tunnel is Closing queues nothing and changes nothing,
\* the connection timer included.
CloseWhileIdleOrClosing ==
    [][/\ (IoCloseChannel /\ IsIdle(tunnel))
            => Queued = <<channelClosed(FALSE)>> /\ tunnel' = tunnel /\ net' = net
       /\ (processTunnelChannelClosed /\ ~Head(evq).success)
            => UNCHANGED <<last_told, ref, net, ioq, tunnel>>
       /\ (IoCloseChannel /\ IsClosing(tunnel))
            => UNCHANGED <<evq, tunnel, net>>
      ]_vars

\* closeConnection() on a binding whose connection the remote side had just
\* dropped: connectionClosed() has been delivered, closeChannel found the
\* tunnel Idle and its channelClosed(false) waits for the facade.
CloseWhileIdleWitness ==
    /\ evq = <<channelClosed(FALSE)>>
    /\ main_pc = "loop"
    /\ last_told = "closed"
    /\ AtRest(tunnel)

\* C20: the connection timer firing, or the remote socket reporting an
\* error, while the tunnel is Connecting (resp. Closing) queues one
\* channelError, the timeout message for the timer and the socket's message
\* for the error, then channelOpened(false) (resp. channelClosed(true)), and
\* leaves the tunnel Idle with the listener closed, no relay peer and the
\* timer stopped.
FailureHandling ==
    [][/\ (IoConnectionTimeout /\ IsConnecting(tunnel))
            => /\ Queued = <<channelError("Remote connect attempt timed out"),
                             channelOpened(FALSE)>>
               /\ AtRest(tunnel')
       /\ (IoConnectionTimeout /\ IsClosing(tunnel))
            => /\ Queued = <<channelError("Remote disconnect attempt timed out, aborting"),
                             channelClosed(TRUE)>>
               /\ AtRest(tunnel')
       /\ RemoteConnectFailed
            => /\ Queued = <<channelError("Remote connection error"), channelOpened(FALSE)>>
               /\ AtRest(tunnel')
       /\ RemoteCloseFailed
            => /\ Queued = <<channelError("Remote connection error"), channelClosed(TRUE)>>
               /\ AtRest(tunnel')
      ]_vars

IsPrefix(p, q) == Len(p) <= Len(q) /\ SubSeq(q, 1, Len(p)) = p

\* C22: what the relay has written to one side is a prefix of what the
\* other end has sent, byte for byte; the rest is what the relay has not
\* read yet or holds in the remote socket's buffer, in the order it was sent.
RelayTransparency ==
    /\ IsPrefix(net.got_remote \o net.remote_out, net.sent_local)
    /\ net.got_remote \o net.remote_out \o net.local_in = net.sent_local
    /\ IsPrefix(net.got_local \o net.local_out, net.sent_remote)
    /\ net.got_local \o net.local_out \o tunnel.remote_buffer \o net.remote_in
           = net.sent_remote

\* Each end has received the three bytes the other has sent, bytes of both
\* values among them.
RelayTransparencyWitness ==
    /\ tunnel.local_socket
    /\ net.got_remote = <<0, 1, 1>>
    /\ net.got_local = <<1, 0, 0>>

\* C23: unless the remote socket stays in its lookup or connect for ever,
\* the first openConnection() is followed by a connectionOpened: once its
\* openChannel is posted, the facade comes to emit connectionOpened(false),
\* or to the bind that ends with connectionOpened(true) or
\* connectionOpened(false).
OpenAnswered ==
    (~<>[]IsConnecting(tunnel))
        => ((ioq # <<>> /\ Head(ioq) = "openChannel" /\ last_told = "none")
                ~> (last_told # "none" \/ main_pc = "binding"))

\* C24: unless the remote socket stays in ClosingState for ever, a
\* closeConnection() that has posted its closeChannel is followed by a
\* connectionClosed().
CloseAnswered ==
    (~<>[]IsClosing(tunnel))
        => ((ioq # <<>> /\ Head(ioq) = "closeChannel") ~> (last_told = "closed"))

\* C25: a caller leaves the start of executeWrappedOperation only with a
\* binding that is connected, and then by posting syncStartWrappedOperation;
\* the token is taken and the operation timer armed only by the tunnel thread
\* running a posted syncStartWrappedOperation, the operation body is entered
\* only from there, and an operation's connectionError is queued only by a
\* caller whose operation has failed. A call made without a connected
\* binding therefore does none of these.
RejectedWhenNotConnected ==
    [][/\ pc'["idle"] < pc["idle"]
            => /\ ref /\ net.local_link
               /\ ioq' = Append(ioq, "syncStartWrappedOperation")
               /\ UNCHANGED <<tunnel, evq>>
       /\ (\/ pc'["body"] > pc["body"]
           \/ ~tunnel.wrapped_operation_timer /\ tunnel'.wrapped_operation_timer
           \/ tunnel'.wrapped_operation_semaphore < tunnel.wrapped_operation_semaphore)
            => /\ IoSyncStart \/ IoSyncStartResume
               /\ pc["start"] > 0
       /\ (\E m \in {"D-Bus operation failed", "D-Bus operation timed out"} :
               Count(evq', connectionError(m)) > Count(evq, connectionError(m)))
            => pc'["failed"] < pc["failed"]
      ]_vars

\* The binding exists and its connection is gone (the remote side has
\* dropped the tunnel): every caller is outside executeWrappedOperation, the
\* token is free and no deadline is armed.
RejectedWitness ==
    /\ ref /\ ~net.local_link
    /\ pc["idle"] = NumCallers
    /\ tunnel.wrapped_operation_semaphore = 1
    /\ ~tunnel.wrapped_operation_timer
    /\ ioq = <<>>

\* C26: the steps of a caller inside its operation (the operation ending,
\* the report of a failure, asyncStopWrappedOperation) leave the remote
\* socket, the listener, the relay peer and the binding alone and queue no
\* channelOpened or channelClosed; a failed operation queues exactly one
\* connectionError on its way to asyncStopWrappedOperation, "D-Bus operation
\* failed" when no deadline has fired, and an operation that succeeds queues
\* nothing.
OperationErrorKeepsConnection ==
    [][/\ (operationLocal \/ operationReply \/ operationSevered
              \/ reportFailure \/ stopWrappedOperation)
            => /\ tunnel'.remote_socket = tunnel.remote_socket
               /\ tunnel'.local_server = tunnel.local_server
               /\ tunnel'.local_socket = tunnel.local_socket
               /\ ref' = ref
               /\ last_told' = last_told
               /\ \A b \in BOOLEAN : /\ Count(evq', channelOpened(b)) = Count(evq, channelOpened(b))
                                     /\ Count(evq', channelClosed(b)) = Count(evq, channelClosed(b))
       /\ (pc'["failed"] < pc["failed"] /\ pc'["stop"] > pc["stop"])
            => /\ Queued = <<connectionError(IF isWrappedOperationTimedOut(tunnel)
                                             THEN "D-Bus operation timed out"
                                             ELSE "D-Bus operation failed")>>
       /\ (pc'["stop"] > pc["stop"] /\ pc'["failed"] = pc["failed"])
            => evq' = evq
       /\ (pc'["stop"] < pc["stop"]) => evq' = evq
      ]_vars

\* An operation has failed with no deadline fired: its connectionError waits
\* for the facade, the tunnel is Connected, the binding in place, and the
\* caller is about to call asyncStopWrappedOperation.
OperationErrorWitness ==
    /\ evq = <<connectionError("D-Bus operation failed")>>
    /\ IsConnected(tunnel)
    /\ ref /\ net.local_link
    /\ pc["stop"] = 1
    /\ ~isWrappedOperationTimedOut(tunnel)

\* The facade's handling of channelOpened(true) ends with a binding that is
\* not connected.
BindFails ==
    \/ connectToBusReturns /\ last_told' # "opened"
    \/ processTunnelChannelOpened /\ main_pc' = "loop"

\* C27: when the bind fails the facade drops the binding, queues
\* abortChannel and announces connectionError and connectionOpened(false),
\* not connectionOpened(true); the abortChannel leaves the remote socket
\* unconnected.
BindFailureAborts ==
    [][/\ BindFails
            => /\ ~ref' /\ ~net'.local_link
               /\ ioq' = Append(ioq, "abortChannel")
               /\ last_told' = "bindFailed"
       /\ IoAbortChannel => IsIdle(tunnel')
      ]_vars

\* C27, amended: as above, but the abortChannel leaves the tunnel at rest
\* only when it finds the remote socket connecting or connected; it changes
\* nothing when it finds the socket unconnected or closing, and a graceful
\* disconnect under way goes on.
BindFailureAbortsUnlessClosing ==
    [][/\ BindFails
            => /\ ~ref' /\ ~net'.local_link
               /\ ioq' = Append(ioq, "abortChannel")
               /\ last_told' = "bindFailed"
       /\ IoAbortChannel
            => /\ Queued = <<>>
               /\ IF IsConnecting(tunnel) \/ IsConnected(tunnel)
                  THEN AtRest(tunnel')
                  ELSE tunnel' = tunnel /\ net' = net
      ]_vars

\* closeConnection() had started a graceful disconnect of a connection whose
\* channelOpened(true) the facade had not handled yet; the bind then failed,
\* and its abortChannel has run and left the disconnect in progress.
BindFailureWhileClosingWitness ==
    /\ IsClosing(tunnel)
    /\ last_told = "bindFailed"
    /\ main_pc = "loop"
    /\ ~ref
    /\ ioq = <<>>

\* The data members of the tunnel that are neither the two timeouts, which the
\* facade's setters write, nor the semaphore, which synchronises by itself.
OwnMembers ==
    DOMAIN tunnel \ {"connection_timeout_ms", "wrapped_operation_timeout_ms",
                     "wrapped_operation_semaphore"}

\* C28: the timeouts are the only data members of the tunnel that a thread
\* other than the tunnel's writes, every read and write of a member that two
\* threads use is made with the tunnel's mutex held, and everything else of
\* the tunnel, its timed-out flag included, is read and written by the tunnel
\* thread alone. The code writes wrapped_operation_timeout_ms without the
\* mutex and reads it without the mutex in both the tunnel's and the caller's
\* thread, and a caller's thread reads wrapped_operation_timed_out.
SharedStateDiscipline ==
    /\ [](unguarded = {})
    /\ [][(FacadeThread \/ CallerThread)
              => \A m \in OwnMembers : tunnel'[m] = tunnel[m]]_vars

\* Every wrapped call made so far has returned, none of them has failed, the
\* cancel that the last of them posted for its deadline is still queued, and
\* the deadline is still armed on a connected tunnel.
CancelPending ==
    /\ Holders = 0
    /\ [thread |-> "caller", member |-> "wrapped_operation_timed_out"] \notin unguarded
    /\ \E i \in DOMAIN ioq : ioq[i] = "stop"
    /\ tunnel.wrapped_operation_timer
    /\ IsConnected(tunnel)
    /\ io_pc = "loop"

\* C29: after a wrapped call has returned success, and as long as the cancel
\* it posted waits in the tunnel thread's queue, its deadline can still
\* fire; the handler then sets the timed-out flag, aborts the channel and
\* emits channelClosed(true) at once, and the cancel is still queued.
DocumentedRace ==
    /\ []((CancelPending /\ Room) => ENABLED IoWrappedOperationTimeout)
    /\ [][(CancelPending /\ IoWrappedOperationTimeout)
              => /\ isWrappedOperationTimedOut(tunnel')
                 /\ AtRest(tunnel')
                 /\ Queued = <<channelClosed(TRUE)>>
                 /\ io_pc' = "loop"
                 /\ ioq' = ioq]_vars

\* The call has returned success and its cancel is queued behind nothing: the
\* deadline and the cancel are both due, and the facade still has its binding.
DocumentedRaceWitness ==
    /\ CancelPending
    /\ Room
    /\ pc["idle"] = NumCallers
    /\ isConnectionOpened
    /\ ~isWrappedOperationTimedOut(tunnel)

\* C30: the deadline's handler emits channelClosed(true) only in a step that
\* finds the token free and no caller inside an operation, and leaves both as
\* they are. When it fires on a connected tunnel while a caller is inside, it
\* emits nothing and stays in acquire(); as long as that caller is inside,
\* the tunnel thread does nothing, and it goes on once the token is back.
TimeoutWaitsForToken ==
    /\ [][((IoWrappedOperationTimeout \/ IoWrappedOperationTimeoutResume)
               /\ Count(Queued, channelClosed(TRUE)) > 0)
              => /\ Holders = 0
                 /\ tunnel.wrapped_operation_semaphore > 0
                 /\ tunnel'.wrapped_operation_semaphore = tunnel.wrapped_operation_semaphore
                 /\ pc' = pc]_vars
    /\ [][(IoWrappedOperationTimeout /\ IsConnected(tunnel) /\ Holders > 0)
              => (evq' = evq /\ io_pc' = "timeout")]_vars
    /\ [][(io_pc = "timeout" /\ Holders > 0)
              => /\ Count(Queued, channelClosed(TRUE)) = 0
                 /\ io_pc' = "timeout"
                 /\ \A m \in OwnMembers : tunnel'[m] = tunnel[m]]_vars
    /\ []((io_pc = "timeout" /\ Holders = 0 /\ Room)
              => ENABLED IoWrappedOperationTimeoutResume)

\* The handler is in acquire(), the caller it waited for has released the
\* token and left, and channelClosed(true) is not queued yet.
TimeoutWaitsForTokenWitness ==
    /\ io_pc = "timeout"
    /\ Holders = 0
    /\ tunnel.wrapped_operation_semaphore > 0
    /\ Count(evq, channelClosed(TRUE)) = 0
    /\ Room

\* C31: the operation's deadline fires while the remote socket is not
\* connected. The handler sets the timed-out flag and nothing else: the
\* sockets, the listener, the token and the connection timer are as before,
\* no signal is queued and the tunnel thread stays in its loop.
TimeoutWhileNotConnected ==
    [][(IoWrappedOperationTimeout /\ ~IsConnected(tunnel))
           => /\ tunnel' = [tunnel EXCEPT !.wrapped_operation_timed_out = TRUE,
                                          !.wrapped_operation_timer = FALSE]
              /\ UNCHANGED <<net, ioq, io_pc, evq>>]_vars

\* A caller is inside its operation with the flag up and the tunnel thread in
\* its loop: the deadline has fired on a tunnel that was not connected, for
\* on a connected one the handler stays in acquire() as long as the caller is
\* inside.
TimeoutWhileNotConnectedWitness ==
    /\ Holders > 0
    /\ io_pc = "loop"
    /\ isWrappedOperationTimedOut(tunnel)
    /\ ~tunnel.wrapped_operation_timer

\* C32: the semaphore holds no token or one, and it holds one whenever no
\* caller is between the return of syncStartWrappedOperation and its
\* asyncStopWrappedOperation and the deadline's handler is not in acquire():
\* the token is free before the first operation and after each one.
TokenFreeBetweenOperations ==
    /\ tunnel.wrapped_operation_semaphore \in {0, 1}
    /\ (Holders = 0 /\ io_pc # "timeout") => tunnel.wrapped_operation_semaphore = 1

\* No timeout has ever been set, an operation has run to its
\* asyncStopWrappedOperation, and every caller is outside: the token is free
\* for the next operation.
TokenFreeWitness ==
    /\ pc["idle"] = NumCallers
    /\ [thread |-> "caller", member |-> "wrapped_operation_timeout_ms"] \in unguarded
    /\ [thread |-> "facade", member |-> "wrapped_operation_timeout_ms"] \notin unguarded
    /\ tunnel.wrapped_operation_semaphore = 1

\* C33: every byte the remote end has sent reaches the protocol client in the
\* end, also a byte that the remote socket received before the listener's
\* connection was accepted, and also when the remote end sends nothing more.
\* processRemoteSocketReadyRead returns without reading while local_socket is
\* null, and nothing reads the remote socket when the connection is accepted:
\* the bytes stay in the remote socket until its next readyRead().
EarlyRemoteBytesDelivered ==
    \A k \in 1..MaxBytes :
        (Len(net.sent_remote) >= k) ~> (Len(net.got_local) >= k)

\* C34: an armed deadline is taken down only by its firing or by a posted
\* cancel, and a cancel that takes an armed deadline down was posted by the
\* operation that armed it: no caller is inside an operation when it runs.
\* A cancel posted while the tunnel thread is in the acquire() of the next
\* caller's syncStartWrappedOperation runs after that caller's deadline has
\* been armed.
CancelIsForOwnDeadline ==
    /\ [][(IoTimerStop /\ tunnel.wrapped_operation_timer) => Holders = 0]_vars
    /\ [][(tunnel.wrapped_operation_timer /\ ~tunnel'.wrapped_operation_timer)
              => (IoTimerStop \/ IoWrappedOperationTimeout)]_vars

\* C35: while the connection timer is armed, the remote socket is looking up
\* its host, connecting or closing; the timer is not armed while the socket
\* is unconnected or connected.
ConnectionTimerOnlyInTransit ==
    tunnel.connection_timer => (IsConnecting(tunnel) \/ IsClosing(tunnel))

\* C36: the remote socket's error() and the connection timer's timeout() are
\* handled only while the socket is looking up its host, connecting or
\* closing, so that processConnectionFailure always ends the attempt: the
\* timer fires only in those states, and a step that reports the socket's
\* error starts in one of them and reports channelOpened(false) or
\* channelClosed(true) as well.
FailureOnlyInTransit ==
    /\ [][IoConnectionTimeout => (IsConnecting(tunnel) \/ IsClosing(tunnel))]_vars
    /\ [][(Count(Queued, channelError("Remote connection error")) > 0)
              => /\ IsConnecting(tunnel) \/ IsClosing(tunnel)
                 /\ Count(Queued, channelOpened(FALSE))
                        + Count(Queued, channelClosed(TRUE)) > 0]_vars

\* C37: dropNativeDBusConnection() deletes ref only while no caller is
\* between the return of syncStartWrappedOperation and its
\* asyncStopWrappedOperation, where operation() and ref->lastError() use it.
BindingOutlivesOperation ==
    [][(ref /\ ~ref') => Holders = 0]_vars

\* C38: the deadline has fired on a connected tunnel while a caller was
\* inside its operation. The caller that reports its failure queues
\* connectionError("D-Bus operation timed out") while the handler is still in
\* acquire(); the handler's channelClosed(true) is queued behind everything
\* that is queued, when no caller has a failure left to report; and the
\* facade takes what is queued oldest first, so that the error is delivered
\* before connectionClosed().
TimeoutErrorBeforeClosed ==
    /\ [][(reportFailure /\ io_pc = "timeout")
              => /\ Queued = <<connectionError("D-Bus operation timed out")>>
                 /\ SubSeq(evq', 1, Len(evq)) = evq
                 /\ io_pc' = "timeout"
                 /\ tunnel'.wrapped_operation_semaphore = 0]_vars
    /\ [][IoWrappedOperationTimeoutResume
              => /\ evq' = Append(evq, channelClosed(TRUE))
                 /\ pc["failed"] = 0 /\ pc["stop"] = 0]_vars
    /\ [][(deliverConnectionError \/ processTunnelChannelClosed)
              => evq' = Tail(evq)]_vars

\* The caller has queued the error of its timed out operation and is about
\* to release the token; the handler is in acquire() and has not emitted
\* channelClosed(true).
TimeoutErrorBeforeClosedWitness ==
    /\ io_pc = "timeout"
    /\ pc["stop"] = 1
    /\ evq # <<>>
    /\ evq[Len(evq)] = connectionError("D-Bus operation timed out")
    /\ Count(evq, channelClosed(TRUE)) = 0

====
